---- MODULE Spec2Model ----
(***************************************************************************)
(* Model of NPDECODES StableEvaluationAtAPoint (mastersolution header):    *)
(* the boundary potential evaluators PSL and PDL, the elliptic solver      *)
(* SolveBVP, and the cut-off function Psi.                                 *)
(*                                                                         *)
(* Numbers.  Points live on an integer grid in which the unit square is    *)
(* [0,U] x [0,U]; mesh nodes have even coordinates, so the midpoint        *)
(* 0.5*(c0+c1) of an edge is again a grid point.  Real values are carried  *)
(* in exact integer arithmetic: edge lengths in 1/100 grid unit, the       *)
(* fundamental solution and its gradient in 1/1000.  Sums and products     *)
(* are therefore exact; only the kernel values are rounded.                *)
(*                                                                         *)
(* LF_ASSERT_MSG and LF_VERIFY_MSG are modelled as active checks that end  *)
(* the program when their condition is false.                              *)
(***************************************************************************)
EXTENDS Integers, Sequences, FiniteSets, TLC

\* Side of the unit square in grid units.
U == 4
\* Number of calls made one after the other on the same mesh.
MaxCalls == 2
\* Largest coefficient of the density v and of the Dirichlet data u.
VMax == 1
\* Resolution of the grid on which Psi is evaluated (unit length = PsiK).
PsiK == 8

----------------------------------------------------------------------------
\* Generic helpers

Abs(n) == IF n < 0 THEN -n ELSE n

Sgn(n) == IF n < 0 THEN -1 ELSE IF n > 0 THEN 1 ELSE 0

Range(s) == {s[k] : k \in 1..Len(s)}

\* floor of the square root
ISqrt(n) == CHOOSE r \in 0..(n + 1) : r * r <= n /\ (r + 1) * (r + 1) > n

RECURSIVE SumFn(_, _)
\* sum of f[k] over k in S
SumFn(f, S) ==
  IF S = {} THEN 0
  ELSE LET k == CHOOSE k \in S : TRUE IN f[k] + SumFn(f, S \ {k})

Reverse(s) == [k \in 1..Len(s) |-> s[Len(s) + 1 - k]]

\* s rotated to the left by r places
Rotate(s, r) == [k \in 1..Len(s) |-> s[((k - 1 + r) % Len(s)) + 1]]

Dot(a, b) == a[1] * b[1] + a[2] * b[2]

Dist2(p, q) == (p[1] - q[1]) * (p[1] - q[1]) + (p[2] - q[2]) * (p[2] - q[2])

----------------------------------------------------------------------------
\* The mesh provider (LehrFEM++): entities, geometry, boundary flags

\* e->Geometry(): a geometry object, or the null pointer
Geometry(p, q) ==
  [null |-> FALSE, corners |-> <<p, q>>, vol |-> ISqrt(10000 * Dist2(p, q))]

\* the null pointer; what a read through it would yield is only ever looked
\* at when the null check is left out
NullGeometry == [null |-> TRUE, corners |-> << <<0, 0>>, <<0, 0>> >>, vol |-> 0]

\* lf::geometry::Corners
Corners(geo) == geo.corners

\* lf::geometry::Volume: the length of an edge, in 1/100 grid unit
Volume(geo) == geo.vol

\* Unit square, two triangles.
MeshSquare ==
  [nodes |-> << <<0, 0>>, <<U, 0>>, <<U, U>>, <<0, U>> >>,
   cells |-> << <<1, 2, 3>>, <<1, 3, 4>> >>,
   edges |-> << <<1, 2>>, <<2, 3>>, <<1, 3>>, <<3, 4>>, <<4, 1>> >>]

\* Unit square, four triangles around the centre node.
MeshCross ==
  [nodes |-> << <<0, 0>>, <<U, 0>>, <<U, U>>, <<0, U>>, <<U \div 2, U \div 2>> >>,
   cells |-> << <<1, 2, 5>>, <<2, 3, 5>>, <<3, 4, 5>>, <<4, 1, 5>> >>,
   edges |-> << <<1, 2>>, <<1, 5>>, <<2, 3>>, <<2, 5>>,
                <<3, 4>>, <<3, 5>>, <<4, 1>>, <<4, 5>> >>]

\* A square of half the side: not a triangulation of the unit square.
MeshHalf ==
  [nodes |-> << <<0, 0>>, <<U \div 2, 0>>, <<U \div 2, U \div 2>>, <<0, U \div 2>> >>,
   cells |-> << <<1, 2, 3>>, <<1, 3, 4>> >>,
   edges |-> << <<1, 2>>, <<2, 3>>, <<1, 3>>, <<3, 4>>, <<4, 1>> >>]

Topologies == {MeshSquare, MeshCross, MeshHalf}

NumEdges(m) == Len(m.edges)

NumNodes(m) == Len(m.nodes)

\* The enumerations of the edges mesh->Entities(1) may produce: the storage
\* order, its reverse, and the storage order started at the third edge.
Orders(n) ==
  LET id == [k \in 1..n |-> k]
  IN {id, Reverse(id), Rotate(id, 2)}

\* A mesh object: topology, one geometry pointer per edge (at most one of
\* them null), and the order in which Entities(1) lists the edges.
MeshObject(t, missing, ord) ==
  [nodes |-> t.nodes, cells |-> t.cells, edges |-> t.edges,
   geom  |-> [k \in 1..Len(t.edges) |->
                IF k = missing THEN NullGeometry
                ELSE Geometry(t.nodes[t.edges[k][1]], t.nodes[t.edges[k][2]])],
   order |-> ord]

Meshes ==
  UNION {{MeshObject(t, missing, ord) :
            missing \in 0..Len(t.edges), ord \in Orders(Len(t.edges))} :
         t \in Topologies}

\* lf::mesh::utils::flagEntitiesOnBoundary(mesh, 1): the edges with exactly
\* one adjacent cell
flagEntitiesOnBoundary(m) ==
  {k \in 1..NumEdges(m) :
     Cardinality({c \in 1..Len(m.cells) :
                    {m.edges[k][1], m.edges[k][2]} \subseteq Range(m.cells[c])}) = 1}

\* Whether the flagged edges lie on, and cover, the boundary of [0,U]^2.
OnUnitSquareBoundary(p) ==
  /\ p[1] \in 0..U /\ p[2] \in 0..U
  /\ (p[1] \in {0, U} \/ p[2] \in {0, U})

IsUnitSquareMesh(m) ==
  /\ \A k \in flagEntitiesOnBoundary(m) :
       LET p == m.nodes[m.edges[k][1]]
           q == m.nodes[m.edges[k][2]]
       IN /\ OnUnitSquareBoundary(p) /\ OnUnitSquareBoundary(q)
          /\ ((p[1] = q[1] /\ p[1] \in {0, U}) \/ (p[2] = q[2] /\ p[2] \in {0, U}))
  /\ SumFn([k \in flagEntitiesOnBoundary(m) |->
              ISqrt(Dist2(m.nodes[m.edges[k][1]], m.nodes[m.edges[k][2]]))],
           flagEntitiesOnBoundary(m)) = 4 * U

----------------------------------------------------------------------------
\* Callables passed in by the caller

\* The density v: v(m) = a*m1 + b*m2 + c, given as <<a, b, c>>
Densities == {<<a, b, 1>> : a \in 0..VMax, b \in 0..VMax}

ApplyV(vv, m) == vv[1] * m[1] + vv[2] * m[2] + vv[3]

\* Evaluation points strictly inside the unit square
EvalPoints == {<<1, 1>>, <<3, 2>>, <<1, 3>>}

----------------------------------------------------------------------------
\* Kernel functions

\* -(1/(2 pi)) log ||x - y|| in 1/1000, indexed by the squared distance in
\* grid units: round(-1000/(4 pi) * ln(d2 / U^2)), d2 = 1..2*U^2
GTable ==
  <<221, 165, 133, 110, 93, 78, 66, 55, 46, 37, 30, 23, 17, 11, 5, 0,
    -5, -9, -14, -18, -22, -25, -29, -32, -36, -39, -42, -45, -47, -50, -53, -55>>

\* FundamentalSolution::operator(): G_x(y); +infinity at y = x
FundamentalSolution(xx, y) ==
  IF Dist2(xx, y) = 0 THEN 999999 ELSE GTable[Dist2(xx, y)]

\* one component of (x - y) / (2 pi ||x - y||^2) in 1/1000, pi = 355/113,
\* rounded to nearest
GradComponent(c, d2) ==
  IF d2 = 0 THEN 999999
  ELSE Sgn(c) * ((2 * 1000 * U * 113 * Abs(c) + 710 * d2) \div (2 * 710 * d2))

\* FundamentalSolution::grad
FundamentalSolutionGrad(xx, y) ==
  <<GradComponent(xx[1] - y[1], Dist2(xx, y)),
    GradComponent(xx[2] - y[2], Dist2(xx, y))>>

\* OuterNormalUnitSquare: the outward normal of the side the point lies on
\* or nearest to; the four sides are separated by the two diagonals
OuterNormalUnitSquare(p) ==
  IF p[1] > p[2] /\ p[1] < U - p[2] THEN <<0, -1>>
  ELSE IF p[1] > p[2] /\ p[1] > U - p[2] THEN <<1, 0>>
  ELSE IF p[1] < p[2] /\ p[1] > U - p[2] THEN <<0, 1>>
  ELSE <<-1, 0>>

----------------------------------------------------------------------------
VARIABLES
  mesh,       \* the shared mesh object
  dofmap,     \* the DOF handler of the finite-element space: node -> DOF
  calls,      \* number of calls started so far
  op,         \* the function being executed
  status,     \* "idle", "running", "returned" or "aborted"
  err,        \* message of the failed assertion
  bd_flags,   \* bd_flags_edge (PSL, PDL) / bd_flags (SolveBVP)
  v, x,       \* arguments of PSL / PDL
  i,          \* position of the edge loop in mesh.order
  acc,        \* PSLval / PDLval
  retval,     \* the double returned by PSL / PDL
  u,          \* argument of SolveBVP: the Dirichlet data
  pc,         \* the statement SolveBVP executes next
  A,          \* the COO matrix: a sequence of triplets <<row, col, value>>
  phi,        \* the right-hand side vector
  ess,        \* edges_flag_values_Dirichlet: per DOF a flag and a value
  A_sparse,   \* the compressed matrix, a sequence of rows
  luInfo,     \* solver.info() after compute
  solveInfo,  \* solver.info() after solve
  discrete_solution,
  retvec,     \* the vector returned by SolveBVP
  psiCenter,  \* Psi::center_
  psiY,       \* the point Psi is evaluated at
  psiVal, psiGrad, psiLapl  \* results of operator(), grad and lapl

shared == <<mesh, dofmap>>

control == <<calls, op, status, err>>

potLocals == <<v, x, i, acc>>

bvpLocals == <<u, pc, A, phi, ess, A_sparse, luInfo, solveInfo, discrete_solution>>

psiVars == <<psiCenter, psiY, psiVal, psiGrad, psiLapl>>

vars == <<shared, control, bd_flags, potLocals, retval, bvpLocals, retvec, psiVars>>

DofMaps(n) == {[k \in 1..n |-> k], [k \in 1..n |-> n + 1 - k]}

NotEvaluated == [branch |-> "none", value |-> 0]

NotEvaluatedGrad == [branch |-> "none", value |-> <<0, 0>>]

InitCallState ==
  /\ calls = 0
  /\ op = "none"
  /\ status = "idle"
  /\ err = ""
  /\ bd_flags = {}
  /\ v = <<0, 0, 0>>
  /\ x = <<0, 0>>
  /\ i = 0
  /\ acc = 0
  /\ retval = 0
  /\ u = <<0, 0, 0>>
  /\ pc = "none"
  /\ A = <<>>
  /\ phi = <<>>
  /\ ess = <<>>
  /\ A_sparse = <<>>
  /\ luInfo = "none"
  /\ solveInfo = "none"
  /\ discrete_solution = <<>>
  /\ retvec = <<>>

InitPsiState ==
  /\ psiCenter = <<0, 0>>
  /\ psiY = <<0, 0>>
  /\ psiVal = NotEvaluated
  /\ psiGrad = NotEvaluatedGrad
  /\ psiLapl = NotEvaluated

Init ==
  /\ mesh \in Meshes
  /\ dofmap \in DofMaps(NumNodes(mesh))
  /\ InitCallState
  /\ InitPsiState

CanCall == status \in {"idle", "returned"} /\ calls < MaxCalls

\* The locals of the previous call no longer exist when a call starts.
FreshPotLocals == v' = <<0, 0, 0>> /\ x' = <<0, 0>> /\ i' = 0 /\ acc' = 0 /\ retval' = 0

FreshBvpLocals ==
  /\ u' = <<0, 0, 0>>
  /\ pc' = "none"
  /\ A' = <<>>
  /\ phi' = <<>>
  /\ ess' = <<>>
  /\ A_sparse' = <<>>
  /\ luInfo' = "none"
  /\ solveInfo' = "none"
  /\ discrete_solution' = <<>>
  /\ retvec' = <<>>

----------------------------------------------------------------------------
\* PSL

\* 0.5 * (corners.col(0) + corners.col(1))
Midpoint(geo) ==
  <<(Corners(geo)[1][1] + Corners(geo)[2][1]) \div 2,
    (Corners(geo)[1][2] + Corners(geo)[2][2]) \div 2>>

\* if (bd_flags_edge(*e))
IsFlagged(flags, k) == k \in flags

\* the null check left out
GeometryMissing_Unchecked(m, k) == FALSE

\* geo_ptr != nullptr fails
GeometryMissing(m, k) == m.geom[k].null

\* the contribution without the edge length
PSLContribution_NoLength(m, vv, xx, k) ==
  ApplyV(vv, Midpoint(m.geom[k])) * FundamentalSolution(xx, Midpoint(m.geom[k]))

\* v(midpoint) * G(midpoint) * lf::geometry::Volume(*geo_ptr)
PSLContribution(m, vv, xx, k) ==
  ApplyV(vv, Midpoint(m.geom[k]))
    * FundamentalSolution(xx, Midpoint(m.geom[k]))
    * Volume(m.geom[k])

\* "=" written for "+="
Accumulate_Assign(a, t) == t

\* PSLval += ... / PDLval += ...
Accumulate(a, t) == a + t

\* PSL with a check of the domain in front of the loop
CallPSL_DomainAssert(vv, xx) ==
  /\ CanCall
  /\ calls' = calls + 1
  /\ op' = "PSL"
  /\ status' = IF IsUnitSquareMesh(mesh) THEN "running" ELSE "aborted"
  /\ err' = IF IsUnitSquareMesh(mesh) THEN "" ELSE "Mesh is not the unit square"
  /\ v' = vv
  /\ x' = xx
  /\ acc' = 0
  /\ bd_flags' = flagEntitiesOnBoundary(mesh)
  /\ i' = 1
  /\ retval' = 0
  /\ FreshBvpLocals
  /\ UNCHANGED <<shared, psiVars>>

CallPSL(vv, xx) ==
  /\ CanCall
  /\ calls' = calls + 1
  /\ op' = "PSL"
  /\ status' = "running"
  /\ err' = ""
  /\ v' = vv
  /\ x' = xx
  /\ acc' = 0
  /\ bd_flags' = flagEntitiesOnBoundary(mesh)
  /\ i' = 1
  /\ retval' = 0
  /\ FreshBvpLocals
  /\ UNCHANGED <<shared, psiVars>>

PSL_Loop ==
  /\ op = "PSL" /\ status = "running" /\ i <= NumEdges(mesh)
  /\ LET k == mesh.order[i] IN
       IF ~IsFlagged(bd_flags, k)
       THEN /\ i' = i + 1
            /\ UNCHANGED <<acc, status, err>>
       ELSE IF GeometryMissing(mesh, k)
       THEN /\ status' = "aborted"
            /\ err' = "Missing geometry!"
            /\ UNCHANGED <<i, acc>>
       ELSE /\ acc' = Accumulate(acc, PSLContribution(mesh, v, x, k))
            /\ i' = i + 1
            /\ UNCHANGED <<status, err>>
  /\ UNCHANGED <<shared, calls, op, bd_flags, v, x, retval, bvpLocals, retvec, psiVars>>

PSL_Return ==
  /\ op = "PSL" /\ status = "running" /\ i > NumEdges(mesh)
  /\ retval' = acc
  /\ status' = "returned"
  /\ UNCHANGED <<shared, calls, op, err, bd_flags, potLocals, bvpLocals, retvec, psiVars>>

----------------------------------------------------------------------------
\* PDL

\* the kernel itself in place of its normal derivative
PDLContribution_NoNormal(m, vv, xx, k) ==
  ApplyV(vv, Midpoint(m.geom[k]))
    * FundamentalSolution(xx, Midpoint(m.geom[k]))
    * Volume(m.geom[k])

\* v(midpoint) * (G.grad(midpoint)).dot(n) * lf::geometry::Volume(*geo_ptr),
\* n = OuterNormalUnitSquare(midpoint)
PDLContribution(m, vv, xx, k) ==
  ApplyV(vv, Midpoint(m.geom[k]))
    * Dot(FundamentalSolutionGrad(xx, Midpoint(m.geom[k])),
          OuterNormalUnitSquare(Midpoint(m.geom[k])))
    * Volume(m.geom[k])

RECURSIVE EdgeLoop(_, _, _, _, _, _)
\* the loop of PSL (fn = "PSL") or PDL over the first j edges of the
\* enumeration ord: the value of PSLval / PDLval after it
EdgeLoop(fn, m, vv, xx, ord, j) ==
  IF j = 0 THEN 0
  ELSE LET a == EdgeLoop(fn, m, vv, xx, ord, j - 1)
           k == ord[j]
       IN IF ~IsFlagged(flagEntitiesOnBoundary(m), k) THEN a
          ELSE Accumulate(a, IF fn = "PSL" THEN PSLContribution(m, vv, xx, k)
                                           ELSE PDLContribution(m, vv, xx, k))

CallPDL(vv, xx) ==
  /\ CanCall
  /\ calls' = calls + 1
  /\ op' = "PDL"
  /\ status' = "running"
  /\ err' = ""
  /\ v' = vv
  /\ x' = xx
  /\ acc' = 0
  /\ bd_flags' = flagEntitiesOnBoundary(mesh)
  /\ i' = 1
  /\ retval' = 0
  /\ FreshBvpLocals
  /\ UNCHANGED <<shared, psiVars>>

PDL_Loop ==
  /\ op = "PDL" /\ status = "running" /\ i <= NumEdges(mesh)
  /\ LET k == mesh.order[i] IN
       IF ~IsFlagged(bd_flags, k)
       THEN /\ i' = i + 1
            /\ UNCHANGED <<acc, status, err>>
       ELSE IF GeometryMissing(mesh, k)
       THEN /\ status' = "aborted"
            /\ err' = "Missing geometry!"
            /\ UNCHANGED <<i, acc>>
       ELSE /\ acc' = Accumulate(acc, PDLContribution(mesh, v, x, k))
            /\ i' = i + 1
            /\ UNCHANGED <<status, err>>
  /\ UNCHANGED <<shared, calls, op, bd_flags, v, x, retval, bvpLocals, retvec, psiVars>>

PDL_Return ==
  /\ op = "PDL" /\ status = "running" /\ i > NumEdges(mesh)
  /\ retval' = acc
  /\ status' = "returned"
  /\ UNCHANGED <<shared, calls, op, err, bd_flags, potLocals, bvpLocals, retvec, psiVars>>

----------------------------------------------------------------------------
\* SolveBVP

\* The Dirichlet data u: u(p) = a*p1 + b*p2 + c*p1*p2, given as <<a, b, c>>
Dirichlets == {<<a, VMax - a, c>> : a \in 0..VMax, c \in 0..1}

ApplyU(uu, p) == uu[1] * p[1] + uu[2] * p[2] + uu[3] * p[1] * p[2]

\* mf_g: [u](Eigen::Vector2d x) -> double { return u(x); }
DirichletData(uu, p) == ApplyU(uu, p)

\* mf_f: [](Eigen::Vector2d x) -> double { return 0.0; }
SourceF(p) == 0

\* What the entries of phi may hold between construction and setZero.
Uninitialized == {-7, 5}

\* dofh.NumDofs(): one DOF per node in the degree-1 Lagrange space
N_dofs(m) == NumNodes(m)

\* Values the entries of a solution are searched in.
SolRange == 0..(2 * VMax * U + U * U)

CellPoint(m, c, a) == m.nodes[m.cells[c][a]]

\* the edge vector opposite local vertex a
OppositeEdge(m, c, a) ==
  LET p == CellPoint(m, c, (a % 3) + 1)
      q == CellPoint(m, c, ((a + 1) % 3) + 1)
  IN <<q[1] - p[1], q[2] - p[2]>>

\* twice the area of cell c
Det(m, c) ==
  LET p == CellPoint(m, c, 1)
      q == CellPoint(m, c, 2)
      r == CellPoint(m, c, 3)
  IN Abs((q[1] - p[1]) * (r[2] - p[2]) - (q[2] - p[2]) * (r[1] - p[1]))

\* lf::uscalfe::LinearFELaplaceElementMatrix: (e_a . e_b) / (4 |T|); the
\* model holds twice that, which is an integer on the meshes above.  The
\* load vector is zero, so the scaling leaves the solution unchanged.
LaplaceElementMatrix(m, c) ==
  [a \in 1..3 |-> [b \in 1..3 |->
     Dot(OppositeEdge(m, c, a), OppositeEdge(m, c, b)) \div Det(m, c)]]

\* lf::assemble::AssembleMatrixLocally(0, dofh, dofh, elmat_builder, A):
\* one triplet per cell and pair of local shape functions, appended to A
AssembleMatrixLocally(m, dm, coo) ==
  coo \o [t \in 1..(9 * Len(m.cells)) |->
            LET c == ((t - 1) \div 9) + 1
                a == (((t - 1) % 9) \div 3) + 1
                b == ((t - 1) % 3) + 1
            IN <<dm[m.cells[c][a]], dm[m.cells[c][b]], LaplaceElementMatrix(m, c)[a][b]>>]

\* ScalarLoadElementVectorProvider for the source f, scaled
LoadElementVector(m, c) == [a \in 1..3 |-> Det(m, c) * SourceF(CellPoint(m, c, a))]

\* AssembleVectorLocally(0, dofh, elvec_builder, phi): adds to phi
AssembleVectorLocally(m, dm, rhs) ==
  [d \in 1..Len(rhs) |->
     rhs[d] + SumFn([ca \in (1..Len(m.cells)) \X (1..3) |->
                       LoadElementVector(m, ca[1])[ca[2]]],
                    {ca \in (1..Len(m.cells)) \X (1..3) : dm[m.cells[ca[1]][ca[2]]] = d})]

\* the nodes of the flagged edges
NodesOnFlaggedEdges(m, flags) == UNION {{m.edges[k][1], m.edges[k][2]} : k \in flags}

\* lf::fe::InitEssentialConditionFromFunction(*fe_space_p, bd_flags, mf_g):
\* per DOF, whether it belongs to a flagged edge and the value of g there
InitEssentialConditionFromFunction(m, dm, flags, uu) ==
  [d \in 1..N_dofs(m) |->
     LET n == CHOOSE n \in 1..NumNodes(m) : dm[n] = d
     IN IF n \in NodesOnFlaggedEdges(m, flags)
        THEN [flag |-> TRUE, val |-> DirichletData(uu, m.nodes[n])]
        ELSE [flag |-> FALSE, val |-> 0]]

FlaggedDofs(e) == {d \in 1..Len(e) : e[d].flag}

\* lf::assemble::FixFlaggedSolutionCompAlt, the matrix: the rows of the
\* flagged DOFs are set to zero, then a 1 is added on their diagonal
FixFlaggedMatrix(coo, e) ==
  SelectSeq(coo, LAMBDA t : ~e[t[1]].flag)
    \o [j \in 1..Cardinality(FlaggedDofs(e)) |->
          LET d == CHOOSE d \in FlaggedDofs(e) :
                     Cardinality({d2 \in FlaggedDofs(e) : d2 <= d}) = j
          IN <<d, d, 1>>]

\* the prescribed values are not written
FixFlaggedRhs_Forget(rhs, e) == rhs

\* lf::assemble::FixFlaggedSolutionCompAlt, the right-hand side
FixFlaggedRhs(rhs, e) ==
  [d \in 1..Len(rhs) |-> IF e[d].flag THEN e[d].val ELSE rhs[d]]

\* A.makeSparse(): triplets with the same position are summed
makeSparse(coo, n) ==
  [r \in 1..n |-> [c \in 1..n |->
     SumFn([t \in 1..Len(coo) |-> coo[t][3]],
           {t \in 1..Len(coo) : coo[t][1] = r /\ coo[t][2] = c})]]

MatVec(As, xv) ==
  [r \in 1..Len(As) |->
     SumFn([c \in 1..Len(As) |-> As[r][c] * xv[c]], 1..Len(As))]

UnitRow(n, r) == [c \in 1..n |-> IF c = r THEN 1 ELSE 0]

\* the rows that are not unit rows: the unknowns of the system
FreeRows(As) == {r \in 1..Len(As) : As[r] # UnitRow(Len(As), r)}

\* the vectors with As * xv = b; a unit row r forces xv[r] = b[r]
Solutions(As, b, range) ==
  {xv \in {[d \in 1..Len(As) |-> IF d \in FreeRows(As) THEN f[d] ELSE b[d]] :
             f \in [FreeRows(As) -> range]} :
     MatVec(As, xv) = b}

\* whether As is regular: its kernel holds only 0 (up to scaling, for the
\* at most one unknown of the meshes above)
Regular(As) ==
  Solutions(As, [d \in 1..Len(As) |-> 0], -1..1) = {[d \in 1..Len(As) |-> 0]}

\* solver.compute(A_sparse); solver.info(): a singular matrix is a
\* numerical issue, and the factorization of a regular one may fail too
ComputeInfos(As) ==
  IF Regular(As) THEN {"Success", "NumericalIssue"} ELSE {"NumericalIssue"}

\* solver.solve(phi)
LUSolve(As, b) ==
  IF Solutions(As, b, SolRange) # {}
  THEN CHOOSE xv \in Solutions(As, b, SolRange) : TRUE
  ELSE [d \in 1..Len(As) |-> 0]

CallSolveBVP(uu, g) ==
  /\ CanCall
  /\ calls' = calls + 1
  /\ op' = "SolveBVP"
  /\ status' = "running"
  /\ err' = ""
  /\ u' = uu
  /\ discrete_solution' = <<>>
  /\ A' = <<>>
  /\ phi' = [d \in 1..N_dofs(mesh) |-> g]
  /\ pc' = "setZero"
  /\ ess' = <<>>
  /\ A_sparse' = <<>>
  /\ luInfo' = "none"
  /\ solveInfo' = "none"
  /\ retvec' = <<>>
  /\ bd_flags' = {}
  /\ FreshPotLocals
  /\ UNCHANGED <<shared, psiVars>>

AtBVP(label) == op = "SolveBVP" /\ status = "running" /\ pc = label

\* phi is left as constructed
SolveBVP_SetZero_Skipped ==
  /\ AtBVP("setZero")
  /\ pc' = "assembleMatrix"
  /\ UNCHANGED <<shared, control, bd_flags, potLocals, retval, u, A, phi, ess, A_sparse,
                 luInfo, solveInfo, discrete_solution, retvec, psiVars>>

\* phi.setZero()
SolveBVP_SetZero ==
  /\ AtBVP("setZero")
  /\ phi' = [d \in 1..Len(phi) |-> 0]
  /\ pc' = "assembleMatrix"
  /\ UNCHANGED <<shared, control, bd_flags, potLocals, retval, u, A, ess, A_sparse,
                 luInfo, solveInfo, discrete_solution, retvec, psiVars>>

SolveBVP_AssembleMatrix ==
  /\ AtBVP("assembleMatrix")
  /\ A' = AssembleMatrixLocally(mesh, dofmap, A)
  /\ pc' = "assembleVector"
  /\ UNCHANGED <<shared, control, bd_flags, potLocals, retval, u, phi, ess, A_sparse,
                 luInfo, solveInfo, discrete_solution, retvec, psiVars>>

SolveBVP_AssembleVector ==
  /\ AtBVP("assembleVector")
  /\ phi' = AssembleVectorLocally(mesh, dofmap, phi)
  /\ pc' = "essential"
  /\ UNCHANGED <<shared, control, bd_flags, potLocals, retval, u, A, ess, A_sparse,
                 luInfo, solveInfo, discrete_solution, retvec, psiVars>>

\* the DOFs are renumbered while the boundary conditions are set up
SolveBVP_InitEssential_Renumber ==
  /\ AtBVP("essential")
  /\ bd_flags' = flagEntitiesOnBoundary(mesh)
  /\ ess' = InitEssentialConditionFromFunction(mesh, dofmap, flagEntitiesOnBoundary(mesh), u)
  /\ dofmap' = Reverse(dofmap)
  /\ pc' = "fix"
  /\ UNCHANGED <<mesh, control, potLocals, retval, u, A, phi, A_sparse,
                 luInfo, solveInfo, discrete_solution, retvec, psiVars>>

SolveBVP_InitEssential ==
  /\ AtBVP("essential")
  /\ bd_flags' = flagEntitiesOnBoundary(mesh)
  /\ ess' = InitEssentialConditionFromFunction(mesh, dofmap, flagEntitiesOnBoundary(mesh), u)
  /\ pc' = "fix"
  /\ UNCHANGED <<shared, control, potLocals, retval, u, A, phi, A_sparse,
                 luInfo, solveInfo, discrete_solution, retvec, psiVars>>

SolveBVP_FixFlagged ==
  /\ AtBVP("fix")
  /\ A' = FixFlaggedMatrix(A, ess)
  /\ phi' = FixFlaggedRhs(phi, ess)
  /\ pc' = "makeSparse"
  /\ UNCHANGED <<shared, control, bd_flags, potLocals, retval, u, ess, A_sparse,
                 luInfo, solveInfo, discrete_solution, retvec, psiVars>>

SolveBVP_MakeSparse ==
  /\ AtBVP("makeSparse")
  /\ A_sparse' = makeSparse(A, N_dofs(mesh))
  /\ pc' = "compute"
  /\ UNCHANGED <<shared, control, bd_flags, potLocals, retval, u, A, phi, ess,
                 luInfo, solveInfo, discrete_solution, retvec, psiVars>>

SolveBVP_Compute ==
  /\ AtBVP("compute")
  /\ luInfo' \in ComputeInfos(A_sparse)
  /\ pc' = "verifyLU"
  /\ UNCHANGED <<shared, control, bd_flags, potLocals, retval, u, A, phi, ess, A_sparse,
                 solveInfo, discrete_solution, retvec, psiVars>>

\* the result of the factorization is not looked at
SolveBVP_VerifyLU_Ignored ==
  /\ AtBVP("verifyLU")
  /\ pc' = "solve"
  /\ UNCHANGED <<shared, control, bd_flags, potLocals, retval, u, A, phi, ess, A_sparse,
                 luInfo, solveInfo, discrete_solution, retvec, psiVars>>

\* LF_VERIFY_MSG(solver.info() == Eigen::Success, "LU decomposition failed")
SolveBVP_VerifyLU ==
  /\ AtBVP("verifyLU")
  /\ IF luInfo = "Success"
     THEN pc' = "solve" /\ UNCHANGED <<status, err>>
     ELSE status' = "aborted" /\ err' = "LU decomposition failed" /\ UNCHANGED pc
  /\ UNCHANGED <<shared, calls, op, bd_flags, potLocals, retval, u, A, phi, ess, A_sparse,
                 luInfo, solveInfo, discrete_solution, retvec, psiVars>>

SolveBVP_Solve ==
  /\ AtBVP("solve")
  /\ discrete_solution' = LUSolve(A_sparse, phi)
  /\ solveInfo' \in {"Success", "NumericalIssue"}
  /\ pc' = "verifySolve"
  /\ UNCHANGED <<shared, control, bd_flags, potLocals, retval, u, A, phi, ess, A_sparse,
                 luInfo, retvec, psiVars>>

\* LF_VERIFY_MSG(solver.info() == Eigen::Success, "Solving LSE failed")
SolveBVP_VerifySolve ==
  /\ AtBVP("verifySolve")
  /\ IF solveInfo = "Success"
     THEN pc' = "return" /\ UNCHANGED <<status, err>>
     ELSE status' = "aborted" /\ err' = "Solving LSE failed" /\ UNCHANGED pc
  /\ UNCHANGED <<shared, calls, op, bd_flags, potLocals, retval, u, A, phi, ess, A_sparse,
                 luInfo, solveInfo, discrete_solution, retvec, psiVars>>

SolveBVP_Return ==
  /\ AtBVP("return")
  /\ retvec' = discrete_solution
  /\ status' = "returned"
  /\ UNCHANGED <<shared, calls, op, err, bd_flags, potLocals, retval, bvpLocals, psiVars>>

----------------------------------------------------------------------------
\* Psi: the cut-off function around center_.  Points are on the grid with
\* unit length PsiK; with s the squared distance in grid units,
\*   dist <= 0.25 * sqrt(2)  iff  8 * s <= PsiK^2
\*   dist >= 0.5             iff  4 * s >= PsiK^2
\* The cos^2 expressions of the transition region are not evaluated: a
\* transition result holds the squared distance the expression is applied to.

PsiCenters == {<<a, b>> : a \in {PsiK \div 2 - 1, PsiK \div 2}, b \in {PsiK \div 2 - 1, PsiK \div 2}}

PsiPoints == (0..PsiK) \X (0..PsiK)

\* dist <= 0.25 * std::sqrt(2)
InCore(c, y) == 8 * Dist2(y, c) <= PsiK * PsiK

\* dist >= 0.5
IsFar(c, y) == 4 * Dist2(y, c) >= PsiK * PsiK

\* Psi::operator()
PsiValue(c, y) ==
  IF InCore(c, y) THEN [branch |-> "core", value |-> 0]
  ELSE IF IsFar(c, y) THEN [branch |-> "far", value |-> 1]
  ELSE [branch |-> "transition", value |-> Dist2(y, c)]

\* "<" written for "<=" at the inner radius
PsiGradient_Strict(c, y) ==
  IF 8 * Dist2(y, c) < PsiK * PsiK THEN [branch |-> "core", value |-> <<0, 0>>]
  ELSE IF 4 * Dist2(y, c) >= PsiK * PsiK THEN [branch |-> "far", value |-> <<0, 0>>]
  ELSE [branch |-> "transition", value |-> <<y[1] - c[1], y[2] - c[2]>>]

\* Psi::grad
PsiGradient(c, y) ==
  IF 8 * Dist2(y, c) <= PsiK * PsiK THEN [branch |-> "core", value |-> <<0, 0>>]
  ELSE IF 4 * Dist2(y, c) >= PsiK * PsiK THEN [branch |-> "far", value |-> <<0, 0>>]
  ELSE [branch |-> "transition", value |-> <<y[1] - c[1], y[2] - c[2]>>]

\* Psi::lapl
PsiLaplacian(c, y) ==
  IF 8 * Dist2(y, c) <= PsiK * PsiK THEN [branch |-> "core", value |-> 0]
  ELSE IF 4 * Dist2(y, c) >= PsiK * PsiK THEN [branch |-> "far", value |-> 0]
  ELSE [branch |-> "transition", value |-> Dist2(y, c)]

idleCall ==
  <<control, bd_flags, potLocals, retval, bvpLocals, retvec>>

Psi_Call(y) ==
  /\ psiY' = y
  /\ psiVal' = PsiValue(psiCenter, y)
  /\ psiGrad' = NotEvaluatedGrad
  /\ psiLapl' = NotEvaluated
  /\ UNCHANGED <<shared, idleCall, psiCenter>>

Psi_Grad ==
  /\ psiVal.branch # "none"
  /\ psiGrad.branch = "none"
  /\ psiGrad' = PsiGradient(psiCenter, psiY)
  /\ UNCHANGED <<shared, idleCall, psiCenter, psiY, psiVal, psiLapl>>

Psi_Lapl ==
  /\ psiVal.branch # "none"
  /\ psiLapl.branch = "none"
  /\ psiLapl' = PsiLaplacian(psiCenter, psiY)
  /\ UNCHANGED <<shared, idleCall, psiCenter, psiY, psiVal, psiGrad>>

InitPsi ==
  /\ mesh = MeshObject(MeshSquare, 0, [k \in 1..Len(MeshSquare.edges) |-> k])
  /\ dofmap = [k \in 1..NumNodes(mesh) |-> k]
  /\ InitCallState
  /\ psiCenter \in PsiCenters
  /\ psiY = <<0, 0>>
  /\ psiVal = NotEvaluated
  /\ psiGrad = NotEvaluatedGrad
  /\ psiLapl = NotEvaluated

NextPsi ==
  \/ \E y \in PsiPoints : Psi_Call(y)
  \/ Psi_Grad
  \/ Psi_Lapl

SpecPsi == InitPsi /\ [][NextPsi]_vars

----------------------------------------------------------------------------
Next ==
  \/ \E vv \in Densities, xx \in EvalPoints : CallPSL(vv, xx)
  \/ PSL_Loop
  \/ PSL_Return
  \/ \E vv \in Densities, xx \in EvalPoints : CallPDL(vv, xx)
  \/ PDL_Loop
  \/ PDL_Return
  \/ \E uu \in Dirichlets, g \in Uninitialized : CallSolveBVP(uu, g)
  \/ SolveBVP_SetZero
  \/ SolveBVP_AssembleMatrix
  \/ SolveBVP_AssembleVector
  \/ SolveBVP_InitEssential
  \/ SolveBVP_FixFlagged
  \/ SolveBVP_MakeSparse
  \/ SolveBVP_Compute
  \/ SolveBVP_VerifyLU
  \/ SolveBVP_Solve
  \/ SolveBVP_VerifySolve
  \/ SolveBVP_Return

Spec == Init /\ [][Next]_vars

----------------------------------------------------------------------------
\* Properties

\* the midpoint of edge k, from the coordinates of its two end nodes
EdgeMid(m, k) ==
  <<(m.nodes[m.edges[k][1]][1] + m.nodes[m.edges[k][2]][1]) \div 2,
    (m.nodes[m.edges[k][1]][2] + m.nodes[m.edges[k][2]][2]) \div 2>>

\* the edges the loop has passed
Visited == {mesh.order[j] : j \in 1..(i - 1)}

\* v(m) * G_x(m) * length(e)
PSLTerm(m, vv, xx, k) ==
  ApplyV(vv, EdgeMid(m, k)) * FundamentalSolution(xx, EdgeMid(m, k)) * m.geom[k].vol

PSLSumOver(m, vv, xx, S) == SumFn([k \in S |-> PSLTerm(m, vv, xx, k)], S)

\* the outward normal of the side of the unit square a boundary point lies on
SideNormal(p) ==
  IF p[1] = 0 THEN <<-1, 0>>
  ELSE IF p[1] = U THEN <<1, 0>>
  ELSE IF p[2] = 0 THEN <<0, -1>>
  ELSE <<0, 1>>

AxisNormals == {<<-1, 0>>, <<1, 0>>, <<0, -1>>, <<0, 1>>}

\* v(m) * (gradG_x(m) . n) * length(e)
PDLTerm(m, vv, xx, k, n) ==
  ApplyV(vv, EdgeMid(m, k)) * Dot(FundamentalSolutionGrad(xx, EdgeMid(m, k)), n)
    * m.geom[k].vol

PDLSumOver(m, vv, xx, S) ==
  SumFn([k \in S |-> PDLTerm(m, vv, xx, k, SideNormal(EdgeMid(m, k)))], S)

\* C1: while PSL runs the running sum is the sum of v(m)*G_x(m)*length(e)
\* over the flagged edges passed so far, and the value PSL returns is that
\* sum over all flagged edges: each flagged edge counts once, an unflagged
\* edge counts nothing.
C1_PSLIsBoundarySum ==
  (op = "PSL" /\ status \in {"running", "returned"}) =>
    /\ acc = PSLSumOver(mesh, v, x, flagEntitiesOnBoundary(mesh) \cap Visited)
    /\ status = "returned" =>
         retval = PSLSumOver(mesh, v, x, flagEntitiesOnBoundary(mesh))

C1_Witness ==
  /\ op = "PSL" /\ status = "returned" /\ retval # 0
  /\ NumEdges(mesh) = Len(MeshCross.edges)
  /\ v = <<1, 0, 1>>
  /\ Cardinality(flagEntitiesOnBoundary(mesh)) = 4

\* C2: on a unit-square mesh the value PDL returns is the sum over the
\* flagged edges of v(m)*(gradG_x(m).n)*length(e), where the normal the code
\* uses is one of the four axis-aligned unit vectors and is the outward normal
\* of the side of the square on which the midpoint lies.
C2_PDLIsBoundarySum ==
  (op = "PDL" /\ status \in {"running", "returned"} /\ IsUnitSquareMesh(mesh)) =>
    /\ \A k \in flagEntitiesOnBoundary(mesh) :
         /\ OuterNormalUnitSquare(EdgeMid(mesh, k)) \in AxisNormals
         /\ OuterNormalUnitSquare(EdgeMid(mesh, k)) = SideNormal(EdgeMid(mesh, k))
    /\ acc = PDLSumOver(mesh, v, x, flagEntitiesOnBoundary(mesh) \cap Visited)
    /\ status = "returned" =>
         retval = PDLSumOver(mesh, v, x, flagEntitiesOnBoundary(mesh))

C2_Witness ==
  /\ op = "PDL" /\ status = "returned" /\ retval # 0
  /\ IsUnitSquareMesh(mesh)
  /\ {SideNormal(EdgeMid(mesh, k)) : k \in flagEntitiesOnBoundary(mesh)} = AxisNormals

\* the enumeration ord with the edges at places j and j + 1 exchanged
Swap(ord, j) ==
  [k \in 1..Len(ord) |->
     IF k = j THEN ord[j + 1] ELSE IF k = j + 1 THEN ord[j] ELSE ord[k]]

OtherOrders(ord) ==
  {Reverse(ord), [k \in 1..Len(ord) |-> k]} \cup {Swap(ord, j) : j \in 1..(Len(ord) - 1)}

\* C9: the value PSL or PDL returns is the same for every enumeration of the
\* edges: running the loop over the reverse of the enumeration used, over the
\* storage order, or over the enumeration with two neighbours exchanged gives
\* the returned value.
C9_OrderIndependent ==
  (op \in {"PSL", "PDL"} /\ status = "returned") =>
    \A ord \in OtherOrders(mesh.order) :
      EdgeLoop(op, mesh, v, x, ord, NumEdges(mesh)) = retval

C9_Witness ==
  /\ op = "PDL" /\ status = "returned" /\ retval # 0
  /\ mesh.order # [k \in 1..NumEdges(mesh) |-> k]
  /\ \E k1, k2 \in flagEntitiesOnBoundary(mesh) :
       /\ PDLContribution(mesh, v, x, k1) # PDLContribution(mesh, v, x, k2)
       /\ PDLContribution(mesh, v, x, k1) # 0
       /\ PDLContribution(mesh, v, x, k2) # 0

\* the largest coordinate of the mesh: the meshes are squares [0, side]^2
DomainSide(m) ==
  CHOOSE c \in {m.nodes[n][1] : n \in 1..NumNodes(m)} :
    \A n \in 1..NumNodes(m) : m.nodes[n][1] <= c

\* whether node n lies on the boundary of the meshed square
OnDomainBoundary(m, n) ==
  \/ m.nodes[n][1] \in {0, DomainSide(m)}
  \/ m.nodes[n][2] \in {0, DomainSide(m)}

\* C3: the vector SolveBVP returns has one entry per DOF; the entry of every
\* node on the boundary (the end nodes of the flagged edges) is the Dirichlet
\* data u at that node, and no node in the interior is fixed.
C3_DirichletValuesExact ==
  (op = "SolveBVP" /\ status = "returned") =>
    /\ Len(retvec) = N_dofs(mesh)
    /\ \A n \in 1..NumNodes(mesh) :
         IF OnDomainBoundary(mesh, n)
         THEN /\ n \in NodesOnFlaggedEdges(mesh, flagEntitiesOnBoundary(mesh))
              /\ retvec[dofmap[n]] = ApplyU(u, mesh.nodes[n])
         ELSE /\ n \notin NodesOnFlaggedEdges(mesh, flagEntitiesOnBoundary(mesh))
              /\ ~ess[dofmap[n]].flag
              /\ dofmap[n] \in FreeRows(A_sparse)

C3_Witness ==
  /\ op = "SolveBVP" /\ status = "returned"
  /\ NumNodes(mesh) = Len(MeshCross.nodes)
  /\ u = <<1, 0, 1>>
  /\ retvec[dofmap[NumNodes(mesh)]] # 0
  /\ dofmap[1] # 1

\* C4: a failed factorization or a failed solve ends SolveBVP in a hard
\* failure: nothing is returned, and after a failed factorization the solve
\* is not executed.
C4_SolverFailureIsFatal ==
  op = "SolveBVP" =>
    /\ luInfo = "NumericalIssue" =>
         /\ pc = "verifyLU" /\ status \in {"running", "aborted"}
         /\ discrete_solution = <<>> /\ solveInfo = "none" /\ retvec = <<>>
    /\ solveInfo = "NumericalIssue" =>
         /\ pc = "verifySolve" /\ status \in {"running", "aborted"}
         /\ retvec = <<>>
    /\ status = "aborted" =>
         /\ retvec = <<>>
         /\ \/ err = "LU decomposition failed" /\ luInfo = "NumericalIssue"
            \/ err = "Solving LSE failed" /\ solveInfo = "NumericalIssue"

C4_Witness ==
  /\ op = "SolveBVP" /\ status = "aborted"
  /\ err = "LU decomposition failed" /\ luInfo = "NumericalIssue"
  /\ discrete_solution = <<>>

\* v(m) * (gradG_x(m) . OuterNormalUnitSquare(m)) * length(e), summed
PDLSumOuterNormal(m, vv, xx, S) ==
  SumFn([k \in S |-> PDLTerm(m, vv, xx, k, OuterNormalUnitSquare(EdgeMid(m, k)))], S)

\* C5, as claimed: PSL and PDL never return a value for a mesh that does not
\* triangulate the unit square.
C5_DomainIsChecked ==
  (op \in {"PSL", "PDL"} /\ ~IsUnitSquareMesh(mesh)) => status # "returned"

\* C5, amended: PSL and PDL do not check the domain.  The only assertion
\* that ends them is "Missing geometry!", and for a mesh that is not the
\* unit square they return the midpoint-rule sum over its flagged edges.
C5_DomainIsNotChecked ==
  op \in {"PSL", "PDL"} =>
    /\ status = "aborted" => err = "Missing geometry!"
    /\ (status = "returned" /\ ~IsUnitSquareMesh(mesh)) =>
         retval = IF op = "PSL"
                  THEN PSLSumOver(mesh, v, x, flagEntitiesOnBoundary(mesh))
                  ELSE PDLSumOuterNormal(mesh, v, x, flagEntitiesOnBoundary(mesh))

C5_Witness ==
  /\ op = "PSL" /\ status = "returned" /\ retval # 0
  /\ ~IsUnitSquareMesh(mesh)

\* C6, as claimed: PSL and PDL never return a value when some edge of the
\* mesh has no geometry.
C6_AnyEdgeWithoutGeometryStops ==
  (op \in {"PSL", "PDL"} /\ \E k \in 1..NumEdges(mesh) : mesh.geom[k].null) =>
    status # "returned"

\* C6, amended: PSL and PDL never return a value when a flagged edge has no
\* geometry; they stop with "Missing geometry!" at that edge, with the
\* running sum holding the contributions of the edges before it only.
C6_FlaggedEdgeWithoutGeometryStops ==
  op \in {"PSL", "PDL"} =>
    /\ (\E k \in flagEntitiesOnBoundary(mesh) : mesh.geom[k].null) => status # "returned"
    /\ status = "aborted" =>
         /\ err = "Missing geometry!"
         /\ mesh.order[i] \in flagEntitiesOnBoundary(mesh)
         /\ mesh.geom[mesh.order[i]].null
         /\ acc = EdgeLoop(op, mesh, v, x, mesh.order, i - 1)
         /\ retval = 0

C6_Witness ==
  /\ op = "PSL" /\ status = "aborted" /\ err = "Missing geometry!"
  /\ i > 1 /\ acc # 0

\* C7: no step of PSL, PDL or SolveBVP changes the mesh or the DOF map.
C7_SharedObjectsUnchanged == [][mesh' = mesh /\ dofmap' = dofmap]_vars

C7_Witness ==
  /\ calls = MaxCalls /\ op = "SolveBVP" /\ status = "returned"
  /\ A # <<>> /\ phi # <<>> /\ retvec # <<>>

\* C8: with d the distance of y from the centre, exactly one of d <= r1,
\* d >= r2, r1 < d < r2 holds; Psi, its gradient and its Laplacian take the
\* same branch; the value is 0, the gradient (0,0) and the Laplacian 0 for
\* d <= r1, and 1, (0,0) and 0 for d >= r2.
C8_PsiBranchesCoincide ==
  LET s == Dist2(psiY, psiCenter)
      core == 8 * s <= PsiK * PsiK
      far == 4 * s >= PsiK * PsiK
      mid == 8 * s > PsiK * PsiK /\ 4 * s < PsiK * PsiK
      expected == IF core THEN "core" ELSE IF far THEN "far" ELSE "transition"
  IN psiVal.branch # "none" =>
       /\ Cardinality({b \in {"core", "far", "transition"} :
                         \/ b = "core" /\ core
                         \/ b = "far" /\ far
                         \/ b = "transition" /\ mid}) = 1
       /\ psiVal.branch = expected
       /\ core => psiVal.value = 0
       /\ far => psiVal.value = 1
       /\ psiGrad.branch # "none" =>
            /\ psiGrad.branch = psiVal.branch
            /\ ~mid => psiGrad.value = <<0, 0>>
       /\ psiLapl.branch # "none" =>
            /\ psiLapl.branch = psiVal.branch
            /\ ~mid => psiLapl.value = 0

C8_Witness ==
  /\ psiVal.branch = "core"
  /\ 8 * Dist2(psiY, psiCenter) = PsiK * PsiK
  /\ psiGrad.branch = "core"
  /\ psiLapl.branch = "core"

ZeroVector(n) == [d \in 1..n |-> 0]

AssembledMatrix == AssembleMatrixLocally(mesh, dofmap, <<>>)

\* C10: SolveBVP keeps its order of steps.  The right-hand side is zero and
\* the matrix assembled before the Dirichlet DOFs are eliminated; the
\* compressed matrix is built from the eliminated system; the factorization
\* has succeeded before the solve, and the solve before the return.
C10_StepOrder ==
  op = "SolveBVP" =>
    /\ pc = "setZero" => A = <<>>
    /\ pc = "assembleMatrix" => A = <<>> /\ phi = ZeroVector(N_dofs(mesh))
    /\ pc \in {"assembleVector", "essential", "fix"} =>
         A = AssembledMatrix /\ phi = ZeroVector(N_dofs(mesh))
    /\ pc \in {"setZero", "assembleMatrix", "assembleVector", "essential"} => ess = <<>>
    /\ pc \in {"setZero", "assembleMatrix", "assembleVector", "essential", "fix",
               "makeSparse"} => A_sparse = <<>>
    /\ pc \in {"makeSparse", "compute", "verifyLU", "solve", "verifySolve", "return"} =>
         /\ A = FixFlaggedMatrix(AssembledMatrix, ess)
         /\ phi = FixFlaggedRhs(ZeroVector(N_dofs(mesh)), ess)
    /\ pc \in {"compute", "verifyLU", "solve", "verifySolve", "return"} =>
         A_sparse = makeSparse(FixFlaggedMatrix(AssembledMatrix, ess), N_dofs(mesh))
    /\ luInfo # "none" => A_sparse # <<>>
    /\ discrete_solution # <<>> => luInfo = "Success"
    /\ solveInfo # "none" => discrete_solution # <<>>
    /\ status = "returned" =>
         /\ luInfo = "Success" /\ solveInfo = "Success"
         /\ retvec = discrete_solution

C10_Witness ==
  /\ op = "SolveBVP" /\ status = "returned"
  /\ NumNodes(mesh) = Len(MeshCross.nodes)
  /\ u = <<0, 1, 1>>
  /\ Len(A) > Cardinality(FlaggedDofs(ess))

====
